---- MODULE Spec2Model ----
\* TVDownloader: the persistent ledger (src/src/file_handler.py), the download
\* orchestrator (src/src/download_manager.py) and the batch driver (src/src/main.py).
EXTENDS Integers, Sequences, FiniteSets, TLC

\* ------------------------------------------------------------------ bounds
\* number of mark_* calls explored on the ledger API
MaxOps == 3
\* video messages of a channel
NItems == 3
\* DownloadManager.max_concurrent, as configured
max_concurrent == 2
\* length of the video_qualities list given to VideoQualityHandler
MaxTargets == 3
\* characters of a file name after its run of plain letters
MaxTail == 2

\* ------------------------------------------------------------ value domains
Channels == {"A", "B"}
LedgerIds == {1, 2}
Sizes == {0, 1, 2}
NoFile == -1
\* Python's None where a quality is expected
NoQuality == -1
\* destination paths used on the ledger API: one per (channel, item)
LedgerPath(ch, id) == <<ch, "f", id>>
LedgerPaths == {LedgerPath(ch, id) : ch \in Channels, id \in LedgerIds}

ItemIds == 1..NItems
\* positions in the configured channel list
Batches == {1, 2}
TaskIds == Batches \X ItemIds
\* files of a series folder besides the videos
PosterFile == -2
DescriptionFile == -3
\* DocumentAttributeVideo.h is absent
NoHeight == -1
SeriesPaths == {<<ch, "s", q>> : ch \in Channels,
                                q \in {NoQuality, 360, 480, 720, PosterFile, DescriptionFile}}

VARIABLES
  metadata,     \* FileHandler.metadata: channel -> channel record
  persisted,    \* content of downloaded_files.json
  disk,         \* file system: path -> size in bytes, NoFile when absent
  marked,       \* history: the (channel, id) pairs ever passed to a mark_* call
  nops,         \* history: number of mark_* calls so far
  last,         \* history: the last ledger call, its arguments, result and what it found
  cfg,          \* configuration and channel content, fixed for a run
  tasks,        \* the download_with_semaphore tasks: (batch, item) -> position and locals
  sem,          \* the asyncio.Semaphore of each download_batch call
  downloaded_count, skipped_count, failed_count, total_size,  \* DownloadManager counters
  mpc,          \* position of main
  ci,           \* index of the channel main is working on
  total_stats,  \* main's running totals
  attempted,    \* history: the channel indices whose loop body was entered
  interrupted,  \* a top-level interrupt arrived
  batch_stats,  \* batch -> the dict download_batch returned to main
  snap,         \* history: the ledger when the counters were last set to zero
  notified,     \* history: the notification calls main made and how each ended
  session,      \* the TelegramClient: new, connected, or closed by disconnect
  proc,         \* the process holding the ledger: running, inside a ledger write, or dead
  torn,         \* downloaded_files.json was opened for writing and not written to its end
  acked,        \* history: the ledger as of the last mark_* call that returned
  arg,          \* the receiver and argument of the last call of a pure method
  ret           \* what that call returned

ledgerVars == <<metadata, persisted, marked, nops, last>>
counterVars == <<downloaded_count, skipped_count, failed_count, total_size>>
mainVars == <<cfg, mpc, ci, total_stats, attempted, interrupted, batch_stats, snap, notified,
              session>>
orchVars == <<cfg, tasks, sem, downloaded_count, skipped_count, failed_count, total_size,
              mpc, ci, total_stats, attempted, interrupted, batch_stats, snap, notified,
              session>>
vars == <<metadata, persisted, disk, marked, nops, last, cfg, tasks, sem,
          downloaded_count, skipped_count, failed_count, total_size,
          mpc, ci, total_stats, attempted, interrupted, batch_stats, snap, notified,
          session, proc, torn, acked, arg, ret>>
auxVars == <<proc, torn, acked, arg, ret>>

\* ------------------------------------------------------------------ ledger
NewChannelRecord == [messages |-> <<>>, total_files |-> 0, total_size |-> 0]

\* mutant: the first entry of a channel starts the ledger anew
WithChannel_StartsAnew(md, ch) ==
  IF ch \in DOMAIN md THEN md
  ELSE [c \in {ch} |-> NewChannelRecord]

\* lines 155-162 / 202-209: the channel record is created lazily
WithChannel(md, ch) ==
  IF ch \in DOMAIN md THEN md
  ELSE [c \in DOMAIN md \cup {ch} |-> IF c = ch THEN NewChannelRecord ELSE md[c]]

Put(f, k, v) == [x \in DOMAIN f \cup {k} |-> IF x = k THEN v ELSE f[x]]

FileExists(d, path) == path \in DOMAIN d /\ d[path] # NoFile

\* FileHandler.is_file_downloaded
is_file_downloaded(md, d, message_id, channel_name) ==
  IF channel_name \notin DOMAIN md THEN FALSE
  ELSE IF message_id \notin DOMAIN md[channel_name].messages THEN FALSE
  ELSE LET message_data == md[channel_name].messages[message_id]
           file_path == message_data.file_path
           expected_size == message_data.file_size
       IN IF FileExists(d, file_path)
          THEN LET actual_size == d[file_path]
               IN IF actual_size >= expected_size /\ expected_size > 0 THEN TRUE
                  ELSE FALSE
          ELSE FALSE

\* FileHandler.mark_file_as_downloading: the in-memory update
mark_file_as_downloading(md, message_id, channel_name, file_path, expected_size, quality) ==
  LET m1 == WithChannel(md, channel_name)
      rec == m1[channel_name]
      is_new == message_id \notin DOMAIN rec.messages
      entry == [file_path |-> file_path, file_size |-> expected_size,
                quality |-> quality, status |-> "downloading"]
  IN [m1 EXCEPT ![channel_name] =
        [messages |-> Put(rec.messages, message_id, entry),
         total_files |-> IF is_new THEN rec.total_files + 1 ELSE rec.total_files,
         total_size |-> rec.total_size]]

\* mutant: every call counts the item as new
mark_file_as_downloaded_CountsEveryCall(md, message_id, channel_name, file_path, file_size, quality) ==
  LET m1 == WithChannel(md, channel_name)
      rec == m1[channel_name]
      entry == [file_path |-> file_path, file_size |-> file_size,
                quality |-> quality, status |-> "completed"]
  IN [m1 EXCEPT ![channel_name] =
        [messages |-> Put(rec.messages, message_id, entry),
         total_files |-> rec.total_files + 1,
         total_size |-> rec.total_size + file_size]]

\* mutant: a re-completed entry adds its size without removing the old one
mark_file_as_downloaded_DoubleCounts(md, message_id, channel_name, file_path, file_size, quality) ==
  LET m1 == WithChannel(md, channel_name)
      rec == m1[channel_name]
      is_new == message_id \notin DOMAIN rec.messages
      entry == [file_path |-> file_path, file_size |-> file_size,
                quality |-> quality, status |-> "completed"]
  IN [m1 EXCEPT ![channel_name] =
        [messages |-> Put(rec.messages, message_id, entry),
         total_files |-> IF is_new THEN rec.total_files + 1 ELSE rec.total_files,
         total_size |-> rec.total_size + file_size]]

\* mutant: the entry is stored and the channel totals are left as they were
mark_file_as_downloaded_ForgetsTotals(md, message_id, channel_name, file_path, file_size, quality) ==
  LET m1 == WithChannel(md, channel_name)
      rec == m1[channel_name]
      entry == [file_path |-> file_path, file_size |-> file_size,
                quality |-> quality, status |-> "completed"]
  IN [m1 EXCEPT ![channel_name] =
        [messages |-> Put(rec.messages, message_id, entry),
         total_files |-> rec.total_files,
         total_size |-> rec.total_size]]

\* mutant: the size of an entry that was only being downloaded is not taken off
mark_file_as_downloaded_KeepsExpected(md, message_id, channel_name, file_path, file_size, quality) ==
  LET m1 == WithChannel(md, channel_name)
      rec == m1[channel_name]
      is_new == message_id \notin DOMAIN rec.messages
      old_size == IF is_new \/ rec.messages[message_id].status = "downloading" THEN 0
                  ELSE rec.messages[message_id].file_size
      entry == [file_path |-> file_path, file_size |-> file_size,
                quality |-> quality, status |-> "completed"]
  IN [m1 EXCEPT ![channel_name] =
        [messages |-> Put(rec.messages, message_id, entry),
         total_files |-> IF is_new THEN rec.total_files + 1 ELSE rec.total_files,
         total_size |-> rec.total_size - old_size + file_size]]

\* mutant: the channel's messages are replaced by the new entry alone
mark_file_as_downloaded_ResetsChannel(md, message_id, channel_name, file_path, file_size, quality) ==
  LET m1 == WithChannel(md, channel_name)
      rec == m1[channel_name]
      is_new == message_id \notin DOMAIN rec.messages
      entry == [file_path |-> file_path, file_size |-> file_size,
                quality |-> quality, status |-> "completed"]
  IN [m1 EXCEPT ![channel_name] =
        [messages |-> Put(<<>>, message_id, entry),
         total_files |-> IF is_new THEN rec.total_files + 1 ELSE rec.total_files,
         total_size |-> IF is_new THEN rec.total_size + file_size ELSE rec.total_size]]

\* FileHandler.mark_file_as_downloaded: the in-memory update
mark_file_as_downloaded(md, message_id, channel_name, file_path, file_size, quality) ==
  LET m1 == WithChannel(md, channel_name)
      rec == m1[channel_name]
      is_new == message_id \notin DOMAIN rec.messages
      old_size == IF is_new THEN 0 ELSE rec.messages[message_id].file_size
      entry == [file_path |-> file_path, file_size |-> file_size,
                quality |-> quality, status |-> "completed"]
  IN [m1 EXCEPT ![channel_name] =
        [messages |-> Put(rec.messages, message_id, entry),
         total_files |-> IF is_new THEN rec.total_files + 1 ELSE rec.total_files,
         total_size |-> IF is_new THEN rec.total_size + file_size
                        ELSE IF old_size # file_size
                             THEN rec.total_size - old_size + file_size
                             ELSE rec.total_size]]

\* json.dump, line 51: a dict is written as a JSON object, the set of its
\* members; the keys of the ledger are strings already (str(message_id), the
\* channel name) and its values are strings, integers and None
json_dump(md) ==
  {<<c, [messages |-> {<<k, md[c].messages[k]>> : k \in DOMAIN md[c].messages},
         total_files |-> md[c].total_files,
         total_size |-> md[c].total_size]>> : c \in DOMAIN md}

\* json.load, line 41: a JSON object is read back as a dict
json_load(text) ==
  [c \in {m[1] : m \in text} |->
     LET v == (CHOOSE m \in text : m[1] = c)[2]
     IN [messages |-> [k \in {e[1] : e \in v.messages} |->
                         (CHOOSE e \in v.messages : e[1] = k)[2]],
         total_files |-> v.total_files,
         total_size |-> v.total_size]]

\* downloaded_files.json does not exist
NoLedgerFile == <<>>

\* FileHandler._save_metadata when nothing fails: the file is opened for
\* writing and the whole ledger is written to it
save_metadata(md) == <<json_dump(md)>>

\* mutant: the file is never read, every start begins with an empty ledger
load_metadata_IgnoresFile(file, is_torn) == <<>>

\* FileHandler._load_metadata: a missing file, and a file json.load refuses,
\* both give the empty ledger
load_metadata(file, is_torn) ==
  IF file # NoLedgerFile
  THEN IF is_torn THEN <<>> ELSE json_load(file[1])
  ELSE <<>>

\* mutant: an exception of the write leaves _save_metadata
SaveHandled_Propagates(wr) == wr = "saved"

\* lines 52-53: an exception of open or json.dump is caught and logged
SaveHandled(wr) == TRUE

\* how a call of _save_metadata can end: the ledger was written; open raised
\* and the file is as it was; open truncated the file and the write raised
SaveOutcomes == {"saved", "refused", "cut"}

\* the content of downloaded_files.json after _save_metadata
WriteFile(file, md, wr) == IF wr = "saved" THEN save_metadata(md) ELSE file
\* ... and whether it ends in the middle of the document
TornAfter(is_torn, wr) == wr = "cut" \/ (wr = "refused" /\ is_torn)

\* what a caller saw of the ledger before its last call (history)
StatusOf(md, ch, id) ==
  IF ch \in DOMAIN md /\ id \in DOMAIN md[ch].messages
  THEN md[ch].messages[id].status ELSE "absent"
SizeOf(md, ch, id) ==
  IF ch \in DOMAIN md /\ id \in DOMAIN md[ch].messages
  THEN md[ch].messages[id].file_size ELSE 0
TotalFiles(md, ch) == IF ch \in DOMAIN md THEN md[ch].total_files ELSE 0
TotalSize(md, ch) == IF ch \in DOMAIN md THEN md[ch].total_size ELSE 0

\* saved: the call's _save_metadata wrote the file; stale: the file did not
\* hold the in-memory ledger when the call was made
NoCall == [op |-> "none", id |-> 0, ch |-> "", size |-> 0, result |-> FALSE,
           was |-> "absent", old_size |-> 0, old_total_size |-> 0, old_total_files |-> 0,
           saved |-> TRUE, stale |-> FALSE]
CallRecord(op, id, ch, size, result) ==
  [op |-> op, id |-> id, ch |-> ch, size |-> size, result |-> result,
   was |-> StatusOf(metadata, ch, id), old_size |-> SizeOf(metadata, ch, id),
   old_total_size |-> TotalSize(metadata, ch),
   old_total_files |-> TotalFiles(metadata, ch),
   saved |-> TRUE, stale |-> load_metadata(persisted, torn) # metadata]

NoTask == [pc |-> "none", attempt |-> 0, fails |-> 0, result |-> "", resume |-> FALSE]
ZeroStats == [downloaded |-> 0, skipped |-> 0, failed |-> 0, total_size |-> 0]
NoConfig == [channels |-> <<>>, videos |-> 0, kind |-> <<>>, retry_attempts |-> 0,
             prior |-> "fresh", notify |-> FALSE, flaky |-> FALSE]

\* ------------------------------------------------- ledger API, called directly
\* mark_file_as_downloading with its trailing _save_metadata
MarkDownloading(id, ch, size) ==
  /\ nops < MaxOps
  /\ metadata' = mark_file_as_downloading(metadata, id, ch, LedgerPath(ch, id), size, NoQuality)
  /\ persisted' = save_metadata(metadata')
  /\ marked' = marked \cup {<<ch, id>>}
  /\ nops' = nops + 1
  /\ last' = CallRecord("downloading", id, ch, size, FALSE)
  /\ UNCHANGED <<disk, orchVars, auxVars>>

\* mark_file_as_downloaded with its trailing _save_metadata
MarkDownloaded(id, ch, size) ==
  /\ nops < MaxOps
  /\ metadata' = mark_file_as_downloaded(metadata, id, ch, LedgerPath(ch, id), size, NoQuality)
  /\ persisted' = save_metadata(metadata')
  /\ marked' = marked \cup {<<ch, id>>}
  /\ nops' = nops + 1
  /\ last' = CallRecord("downloaded", id, ch, size, FALSE)
  /\ UNCHANGED <<disk, orchVars, auxVars>>

CheckDownloaded(id, ch) ==
  /\ last' = CallRecord("check", id, ch, 0, is_file_downloaded(metadata, disk, id, ch))
  /\ UNCHANGED <<metadata, persisted, disk, marked, nops, orchVars, auxVars>>

\* no ledger write is in progress
WriteInit == proc = "running" /\ torn = FALSE /\ acked = <<>>
\* ... and no pure method has been called
AuxInit == WriteInit /\ arg = <<>> /\ ret = <<>>

\* no downloaded_files.json yet
EmptyLedger ==
  /\ metadata = <<>>
  /\ persisted = NoLedgerFile
  /\ marked = {}
  /\ nops = 0
  /\ last = NoCall

\* no DownloadManager and no main: the object under test is used directly
NoOrchestrator ==
  /\ cfg = NoConfig
  /\ tasks = [t \in TaskIds |-> NoTask]
  /\ sem = [b \in Batches |-> 0]
  /\ downloaded_count = 0 /\ skipped_count = 0 /\ failed_count = 0 /\ total_size = 0
  /\ mpc = "done" /\ ci = 0 /\ total_stats = ZeroStats
  /\ attempted = <<>> /\ interrupted = FALSE
  /\ batch_stats = <<>> /\ snap = <<>> /\ notified = <<>> /\ session = "new"

InitLedger ==
  /\ AuxInit /\ EmptyLedger /\ NoOrchestrator
  /\ \E s \in Sizes \cup {NoFile} : disk = [p \in LedgerPaths |-> s]

NextLedger ==
  \/ \E id \in LedgerIds, ch \in Channels, size \in Sizes : MarkDownloading(id, ch, size)
  \/ \E id \in LedgerIds, ch \in Channels, size \in Sizes : MarkDownloaded(id, ch, size)
  \/ \E id \in LedgerIds, ch \in Channels : CheckDownloaded(id, ch)

SpecLedger == InitLedger /\ [][NextLedger]_vars

\* ------------------------------------------- the ledger file across a crash
\* a mark_* call up to the open(metadata_file, 'w') of _save_metadata: the
\* entry is in memory and the file has been truncated
MarkBegin(op, id, ch, size) ==
  /\ proc = "running"
  /\ nops < MaxOps
  /\ metadata' = IF op = "downloading"
                 THEN mark_file_as_downloading(metadata, id, ch, LedgerPath(ch, id), size,
                                               NoQuality)
                 ELSE mark_file_as_downloaded(metadata, id, ch, LedgerPath(ch, id), size,
                                              NoQuality)
  /\ torn' = TRUE
  /\ proc' = "writing"
  /\ marked' = marked \cup {<<ch, id>>}
  /\ nops' = nops + 1
  /\ last' = CallRecord(op, id, ch, size, FALSE)
  /\ UNCHANGED <<persisted, disk, orchVars, acked, arg, ret>>

\* json.dump wrote the whole ledger, the file is closed and the mark_* call returns
WriteEnd ==
  /\ proc = "writing"
  /\ persisted' = save_metadata(metadata)
  /\ torn' = FALSE
  /\ proc' = "running"
  /\ acked' = metadata
  /\ UNCHANGED <<metadata, disk, marked, nops, last, orchVars, arg, ret>>

\* the process dies; what it held in memory is gone, the file stays as it is
Crash ==
  /\ proc \in {"running", "writing"}
  /\ proc' = "dead"
  /\ metadata' = <<>>
  /\ last' = NoCall
  /\ UNCHANGED <<persisted, disk, marked, nops, orchVars, torn, acked, arg, ret>>

\* the next start: FileHandler.__init__ loads the ledger, line 34
Restart ==
  /\ proc = "dead"
  /\ metadata' = load_metadata(persisted, torn)
  /\ proc' = "running"
  /\ last' = [NoCall EXCEPT !.op = "load"]
  /\ UNCHANGED <<persisted, disk, marked, nops, orchVars, torn, acked, arg, ret>>

NextCrash ==
  \/ \E op \in {"downloading", "downloaded"}, id \in LedgerIds, ch \in Channels,
        size \in Sizes : MarkBegin(op, id, ch, size)
  \/ WriteEnd
  \/ Crash
  \/ Restart

SpecCrash == InitLedger /\ [][NextCrash]_vars

\* -------------------------------------------------------- quality selection
\* VideoQualityHandler.TARGET_QUALITIES, the class default
TARGET_QUALITIES == <<360, 480, 720>>

\* VideoQualityHandler.__init__: an empty list gives the default, the list is
\* sorted ascending
VideoQualityHandler(tq, nearest) ==
  [target_qualities |-> SortSeq(IF tq = <<>> THEN TARGET_QUALITIES ELSE tq,
                                LAMBDA a, b : a < b),
   download_nearest |-> nearest]

\* the configured video_qualities and download_nearest_quality
target_qualities == <<360, 480, 720>>
download_nearest == TRUE
quality_handler == VideoQualityHandler(target_qualities, download_nearest)

\* the truth value Python gives an Optional[int]: None and 0 are false
Truthy(v) == v # NoQuality /\ v # 0

\* lines 75-79: the largest target not above the source, scanning from the top
RECURSIVE BestQuality(_, _, _)
BestQuality(tq, video_quality, n) ==
  IF n = 0 THEN NoQuality
  ELSE IF video_quality >= tq[n] THEN tq[n]
  ELSE BestQuality(tq, video_quality, n - 1)

\* mutant: a source below every target is fetched into the lowest bucket
should_download_video_ClampsUp(self, video_quality) ==
  IF video_quality = NoHeight THEN [fetch |-> TRUE, quality |-> NoQuality]
  ELSE IF \E n \in DOMAIN self.target_qualities : self.target_qualities[n] = video_quality
       THEN [fetch |-> TRUE, quality |-> video_quality]
  ELSE LET best_quality == BestQuality(self.target_qualities, video_quality,
                                       Len(self.target_qualities))
       IN IF Truthy(best_quality)
          THEN [fetch |-> TRUE, quality |-> best_quality]
          ELSE [fetch |-> TRUE, quality |-> self.target_qualities[1]]

\* mutant: download_nearest is not consulted
should_download_video_AlwaysNearest(self, video_quality) ==
  IF video_quality = NoHeight THEN [fetch |-> TRUE, quality |-> NoQuality]
  ELSE IF \E n \in DOMAIN self.target_qualities : self.target_qualities[n] = video_quality
       THEN [fetch |-> TRUE, quality |-> video_quality]
  ELSE LET best_quality == BestQuality(self.target_qualities, video_quality,
                                       Len(self.target_qualities))
       IN IF Truthy(best_quality)
          THEN [fetch |-> TRUE, quality |-> best_quality]
          ELSE [fetch |-> FALSE, quality |-> NoQuality]

\* VideoQualityHandler.should_download_video
should_download_video(self, video_quality) ==
  IF video_quality = NoHeight THEN [fetch |-> TRUE, quality |-> NoQuality]
  ELSE IF \E n \in DOMAIN self.target_qualities : self.target_qualities[n] = video_quality
       THEN [fetch |-> TRUE, quality |-> video_quality]
  ELSE IF self.download_nearest
       THEN LET best_quality == BestQuality(self.target_qualities, video_quality,
                                            Len(self.target_qualities))
            IN IF Truthy(best_quality)
               THEN [fetch |-> TRUE, quality |-> best_quality]
               ELSE [fetch |-> FALSE, quality |-> NoQuality]
  ELSE [fetch |-> FALSE, quality |-> NoQuality]

\* the handler called directly: heights and target lists
Heights == {NoHeight, 0, 240, 300, 360, 480, 540, 720, 1080}
TargetValues == {0, 360, 480, 720}
RECURSIVE SeqsUpTo(_, _)
SeqsUpTo(S, n) ==
  IF n = 0 THEN {<<>>}
  ELSE LET shorter == SeqsUpTo(S, n - 1)
       IN shorter \cup {Append(q, x) : q \in shorter, x \in S}
TargetLists == SeqsUpTo(TargetValues, MaxTargets)

NoReturn == [called |-> FALSE]

\* one call of should_download_video on the handler built in InitQuality
ShouldDownload(h) ==
  /\ LET r == should_download_video(arg.self, h)
     IN ret' = [called |-> TRUE, fetch |-> r.fetch, quality |-> r.quality]
  /\ arg' = [arg EXCEPT !.video_quality = h]
  /\ UNCHANGED <<ledgerVars, disk, orchVars, proc, torn, acked>>

InitQuality ==
  /\ WriteInit /\ EmptyLedger /\ NoOrchestrator
  /\ disk = [p \in LedgerPaths |-> NoFile]
  /\ \E tq \in TargetLists, nearest \in BOOLEAN :
       arg = [self |-> VideoQualityHandler(tq, nearest), video_quality |-> NoHeight]
  /\ ret = NoReturn

NextQuality == \E h \in Heights : ShouldDownload(h)

SpecQuality == InitQuality /\ [][NextQuality]_vars

\* ------------------------------------------------------ filename sanitation
\* a file name is a sequence of characters
invalid_chars == <<"<", ">", ":", "\"", "/", "\\", "|", "?", "*">>
\* line 350: the length a name is cut to
NameLimit == 200

\* filename.replace(char, '_')
ReplaceChar(filename, char) ==
  [i \in DOMAIN filename |-> IF filename[i] = char THEN "_" ELSE filename[i]]

\* lines 343-344: the loop over the first n invalid characters
RECURSIVE ReplaceAll(_, _)
ReplaceAll(filename, n) ==
  IF n = 0 THEN filename
  ELSE ReplaceChar(ReplaceAll(filename, n - 1), invalid_chars[n])

\* str.lstrip / str.rstrip / str.strip with the characters to remove
RECURSIVE LStrip(_, _)
LStrip(q, chars) ==
  IF q # <<>> /\ Head(q) \in chars THEN LStrip(Tail(q), chars) ELSE q
RECURSIVE RStrip(_, _)
RStrip(q, chars) ==
  IF q # <<>> /\ q[Len(q)] \in chars THEN RStrip(SubSeq(q, 1, Len(q) - 1), chars) ELSE q
Strip(q, chars) == LStrip(RStrip(q, chars), chars)

\* DownloadManager._sanitize_filename
sanitize_filename(filename) ==
  LET replaced == ReplaceAll(filename, Len(invalid_chars))
      stripped == Strip(replaced, {".", " "})
  IN IF Len(stripped) > NameLimit THEN SubSeq(stripped, 1, NameLimit) ELSE stripped

\* the names given to it: up to one character, a run of letters that ends near
\* the limit, up to MaxTail characters
NameChars == {"a", ".", " ", "/"}
Pad(k) == [i \in 1..k |-> "a"]
PadLengths == {0, NameLimit - 2, NameLimit - 1, NameLimit}
Names ==
  {head \o Pad(k) \o tail : head \in SeqsUpTo(NameChars, 1), k \in PadLengths,
                            tail \in SeqsUpTo(NameChars, MaxTail)}

\* one call of _sanitize_filename
Sanitize ==
  /\ ~ret.called
  /\ ret' = [called |-> TRUE, value |-> sanitize_filename(arg.filename)]
  /\ UNCHANGED <<ledgerVars, disk, orchVars, proc, torn, acked, arg>>

InitSanitize ==
  /\ WriteInit /\ EmptyLedger /\ NoOrchestrator
  /\ disk = [p \in LedgerPaths |-> NoFile]
  /\ \E name \in Names : arg = [filename |-> name]
  /\ ret = NoReturn

NextSanitize == Sanitize

SpecSanitize == InitSanitize /\ [][NextSanitize]_vars

\* ------------------------------------------------------------ the messages
\* what a video message of each kind carries
Height(k) ==
  CASE k = "exact" -> 480
    [] k = "nearest" -> 500
    [] k = "low" -> 240
    [] k = "high" -> 1080
    [] OTHER -> 480
DocSize(k) == IF k = "nearest" THEN 1 ELSE 2
HasThumb(k) == k = "exact"
IsDocument(k) == k # "nomedia"
\* a series name the file system refuses as a folder name: mkdir raises OSError
FolderFails(k) == k = "long"

retry_attempts == cfg.retry_attempts
ChanOf(b) == cfg.channels[b]
KindOf(t) == cfg.kind[t[2]]
QualityOf(t) == should_download_video(quality_handler, Height(KindOf(t))).quality
\* series_folder / file_name, lines 245 and 258-259
DestPath(t) == <<ChanOf(t[1]), "s", QualityOf(t)>>
PosterPath(t) == <<ChanOf(t[1]), "s", PosterFile>>
DescriptionPath(t) == <<ChanOf(t[1]), "s", DescriptionFile>>

\* ------------------------------------------------------------ orchestrator
Suspended == {"poster", "transfer", "floodsleep", "retrysleep"}
Created(b) == {i \in ItemIds : tasks[<<b, i>>].pc # "none"}
InFlight(b) == {i \in ItemIds : tasks[<<b, i>>].pc \in Suspended}

\* mutant: the semaphore never blocks
SemaphoreFree_Unbounded(b) == TRUE

\* asyncio.Semaphore.acquire proceeds only while the value is positive
SemaphoreFree(b) == sem[b] > 0

\* mutant: an existing destination file is not looked at
Prepare_NoExistsCheck(d, t) ==
  IF retry_attempts = 0 THEN "NONE" ELSE "transfer"

\* lines 257-275: after the side artifacts, up to the first transfer call
Prepare(d, t) ==
  IF FileExists(d, DestPath(t)) THEN "SKIPPED"
  ELSE IF retry_attempts = 0 THEN "NONE"
  ELSE "transfer"

\* mutant: the handler sleeps after the last attempt as well
OnFailure_AlwaysSleeps(attempt) == "retrysleep"

\* lines 315-327: the handler of a failure that is not a rate limit
OnFailure(attempt) ==
  IF attempt < retry_attempts - 1 THEN "retrysleep" ELSE "FAILED"

\* mutant: the loop takes one attempt more than configured
NextAttempt_OneMore(attempt) ==
  IF attempt + 1 <= retry_attempts THEN "transfer" ELSE "NONE"

\* lines 309-313 then line 275: after a sleep the loop takes its next attempt
NextAttempt(attempt) ==
  IF attempt + 1 < retry_attempts THEN "transfer" ELSE "NONE"

\* mutant: the slot of an item that failed is not given back
Holds_LeakOnFailure(out) == IF out \in Suspended \/ out = "FAILED" THEN 1 ELSE 0

\* `async with semaphore`, lines 459-462: the slot is held while download_video
\* is suspended and released on every way out of it
Holds(out) == IF out \in Suspended THEN 1 ELSE 0

\* how the _save_metadata of an exit can end; the file system refuses ledger
\* writes only in the configurations that say so
Saves(to) == IF to = "DOWNLOADED" /\ cfg.flaky THEN SaveOutcomes ELSE {"saved"}

\* The task moves to `to`: a suspension point, or a way out of download_video
\* with the counter updates of that exit and the release of the semaphore
\* (download_with_semaphore, lines 457-462). On the DOWNLOADED exit, lines
\* 289-305 run without a suspension: total_size, mark_file_as_downloaded with
\* its _save_metadata, downloaded_count.
Advance(t, to, d2, att, fl, res) ==
  \E wr \in Saves(to) :
    LET b == t[1]
        held == IF tasks[t].pc = "queued" THEN 0 ELSE 1
        out == IF to = "DOWNLOADED" /\ ~SaveHandled(wr) THEN OnFailure(att) ELSE to
        holds == Holds(out)
        file_size == d2[DestPath(t)]
    IN /\ tasks' = [tasks EXCEPT ![t] =
                      [pc |-> IF out \in Suspended THEN out
                              ELSE IF out = "RAISED" THEN "raised" ELSE "done",
                       attempt |-> att, fails |-> fl,
                       result |-> IF out \in Suspended THEN "" ELSE out,
                       resume |-> res]]
       /\ sem' = [sem EXCEPT ![b] = @ + held - holds]
       /\ disk' = d2
       /\ skipped_count' = IF out = "SKIPPED" THEN skipped_count + 1 ELSE skipped_count
       /\ failed_count' = IF out = "FAILED" THEN failed_count + 1 ELSE failed_count
       /\ IF to = "DOWNLOADED"
          THEN /\ total_size' = total_size + file_size
               /\ metadata' = mark_file_as_downloaded(metadata, t[2], ChanOf(b), DestPath(t),
                                                      file_size, QualityOf(t))
               /\ persisted' = WriteFile(persisted, metadata', wr)
               /\ torn' = TornAfter(torn, wr)
               /\ marked' = marked \cup {<<ChanOf(b), t[2]>>}
               /\ last' = [CallRecord("downloaded", t[2], ChanOf(b), file_size, FALSE)
                             EXCEPT !.saved = (wr = "saved")]
               /\ downloaded_count' = IF out = "DOWNLOADED" THEN downloaded_count + 1
                                       ELSE downloaded_count
          ELSE UNCHANGED <<total_size, metadata, persisted, torn, marked, last,
                           downloaded_count>>
       /\ UNCHANGED <<nops, mainVars, proc, acked, arg, ret>>

\* a completed entry whose file at the destination is shorter than recorded
NeedsResume(t) ==
  LET ch == ChanOf(t[1])
  IN /\ ch \in DOMAIN metadata /\ t[2] \in DOMAIN metadata[ch].messages
     /\ metadata[ch].messages[t[2]].status = "completed"
     /\ metadata[ch].messages[t[2]].file_path = DestPath(t)
     /\ FileExists(disk, DestPath(t))
     /\ disk[DestPath(t)] < metadata[ch].messages[t[2]].file_size

\* download_with_semaphore acquires a slot and download_video runs to its first
\* suspension point: lines 459-460, 220-255
TaskStart(t) ==
  /\ mpc # "done"
  /\ tasks[t].pc = "queued"
  /\ SemaphoreFree(t[1])
  /\ LET k == KindOf(t)
         d1 == IF FileExists(disk, DescriptionPath(t)) THEN disk
               ELSE [disk EXCEPT ![DescriptionPath(t)] = 1]
         res == NeedsResume(t)
     IN IF is_file_downloaded(metadata, disk, t[2], ChanOf(t[1]))
        THEN Advance(t, "SKIPPED", disk, 0, 0, res)
        ELSE IF ~IsDocument(k) THEN Advance(t, "NONE", disk, 0, 0, res)
        ELSE IF ~should_download_video(quality_handler, Height(k)).fetch
             THEN Advance(t, "SKIPPED", disk, 0, 0, res)
        ELSE IF FolderFails(k) THEN Advance(t, "RAISED", disk, 0, 0, res)
        ELSE IF ~FileExists(d1, PosterPath(t)) /\ HasThumb(k)
             THEN Advance(t, "poster", d1, 0, 0, res)
        ELSE Advance(t, Prepare(d1, t), d1, 0, 0, res)

\* _download_poster returns: client.download_media wrote the thumbnail or failed
PosterReturn(t, created) ==
  /\ mpc # "done"
  /\ tasks[t].pc = "poster"
  /\ LET d1 == IF created THEN [disk EXCEPT ![PosterPath(t)] = 1] ELSE disk
     IN Advance(t, Prepare(d1, t), d1, 0, 0, tasks[t].resume)

\* what a call of client.download_media can do: write the whole file and
\* return, write a shorter file and return, return without writing, raise
\* FloodWaitError, raise another error (leaving nothing or a partial file)
TransferOutcomes == {"written", "short", "nothing", "flood", "error", "partial"}

Written(oc, k) ==
  IF oc = "written" THEN DocSize(k)
  ELSE IF oc \in {"short", "partial"} THEN DocSize(k) - 1
  ELSE NoFile

\* client.download_media returns or raises: lines 278-327
TransferReturn(t, oc) ==
  /\ mpc # "done"
  /\ tasks[t].pc = "transfer"
  /\ LET d1 == IF Written(oc, KindOf(t)) # NoFile
               THEN [disk EXCEPT ![DestPath(t)] = Written(oc, KindOf(t))]
               ELSE disk
         att == tasks[t].attempt
         fl == tasks[t].fails
     IN IF oc = "flood" THEN Advance(t, "floodsleep", d1, att, fl, tasks[t].resume)
        ELSE IF oc \in {"written", "short", "nothing"} /\ FileExists(d1, DestPath(t))
             THEN Advance(t, "DOWNLOADED", d1, att, fl, tasks[t].resume)
        ELSE Advance(t, OnFailure(att), d1, att, fl + 1, tasks[t].resume)

\* asyncio.sleep returns: the loop goes on with the next value of attempt
SleepReturn(t) ==
  /\ mpc # "done"
  /\ tasks[t].pc \in {"floodsleep", "retrysleep"}
  /\ Advance(t, NextAttempt(tasks[t].attempt), disk, tasks[t].attempt + 1,
             tasks[t].fails, tasks[t].resume)

\* ------------------------------------------------------------ batch driver
Stats == [downloaded |-> downloaded_count, skipped |-> skipped_count,
          failed |-> failed_count, total_size |-> total_size]

\* the for statement of line 167 takes the next channel, or the loop ends and
\* main goes on to line 213 and to client.disconnect
NextChannel ==
  IF ci < Len(cfg.channels)
  THEN /\ ci' = ci + 1
       /\ attempted' = Append(attempted, ci + 1)
       /\ mpc' = "resolve"
  ELSE /\ mpc' = IF cfg.notify THEN "notify_completion" ELSE "disconnect"
       /\ UNCHANGED <<ci, attempted>>

\* mutant: a channel's failure ends the loop over the channels
OnChannelError_Aborts ==
  /\ mpc' = "disconnect"
  /\ UNCHANGED <<ci, attempted>>

\* lines 203-211: the per-channel handler logs, notifies when that is
\* configured, and continues
OnChannelError ==
  IF cfg.notify
  THEN mpc' = "notify_error" /\ UNCHANGED <<ci, attempted>>
  ELSE NextChannel

\* lines 234-240: the top-level handler logs, notifies when that is
\* configured, and leaves the rest to the finally clause
OnCriticalError ==
  /\ mpc' = IF cfg.notify THEN "notify_critical" ELSE "disconnect"
  /\ UNCHANGED <<ci, attempted>>

\* client.connect returns or raises; lines 144-168: without channels main
\* returns, otherwise it notifies the start when that is configured and enters
\* its loop over the channels
MainConnect(ok) ==
  /\ mpc = "connect"
  /\ session' = IF ok THEN "connected" ELSE session
  /\ IF ~ok THEN OnCriticalError
     ELSE IF cfg.channels = <<>> THEN mpc' = "disconnect" /\ UNCHANGED <<ci, attempted>>
     ELSE IF cfg.notify THEN mpc' = "notify_start" /\ UNCHANGED <<ci, attempted>>
     ELSE NextChannel
  /\ UNCHANGED <<ledgerVars, auxVars, notified, disk, cfg, tasks, sem, counterVars, total_stats,
                 interrupted, batch_stats, snap>>

\* client.get_channel_name returns or raises
MainResolve(ok) ==
  /\ mpc = "resolve"
  /\ IF ok THEN mpc' = "enumerate" /\ UNCHANGED <<ci, attempted>>
     ELSE OnChannelError
  /\ UNCHANGED <<ledgerVars, auxVars, notified, session, disk, cfg, tasks, sem, counterVars, total_stats,
                 interrupted, batch_stats, snap>>

\* client.get_video_messages returns the n videos it collected: all the videos
\* of the channel, or the ones found before iter_messages raised, or none when
\* the channel was not resolved (telegram_client.py lines 101-116); main lines
\* 178-188 and download_batch lines 443-466
MainEnumerate(n) ==
  /\ mpc = "enumerate"
  /\ IF n = 0
     THEN /\ NextChannel
          /\ UNCHANGED <<tasks, sem, counterVars, snap>>
     ELSE /\ downloaded_count' = 0 /\ skipped_count' = 0
          /\ failed_count' = 0 /\ total_size' = 0
          /\ sem' = [sem EXCEPT ![ci] = max_concurrent]
          /\ tasks' = [t \in TaskIds |->
                         IF t[1] = ci /\ t[2] <= n
                         THEN [NoTask EXCEPT !.pc = "queued"] ELSE tasks[t]]
          /\ snap' = metadata
          /\ mpc' = "batch"
          /\ UNCHANGED <<ci, attempted>>
  /\ UNCHANGED <<ledgerVars, auxVars, notified, session, disk, cfg, total_stats, interrupted, batch_stats>>

\* asyncio.gather completes: download_batch returns the counters, lines 466-475
\* and 188-194
MainBatchReturn ==
  /\ mpc = "batch"
  /\ \A i \in Created(ci) : tasks[<<ci, i>>].pc = "done"
  /\ batch_stats' = Put(batch_stats, ci, Stats)
  /\ total_stats' = [downloaded |-> total_stats.downloaded + downloaded_count,
                     skipped |-> total_stats.skipped + skipped_count,
                     failed |-> total_stats.failed + failed_count,
                     total_size |-> total_stats.total_size + total_size]
  /\ NextChannel
  /\ UNCHANGED <<ledgerVars, auxVars, notified, session, disk, cfg, tasks, sem, counterVars, interrupted, snap>>

\* asyncio.gather passes on the first exception of a task; the other tasks are
\* not cancelled
MainBatchRaise ==
  /\ mpc = "batch"
  /\ \E i \in Created(ci) : tasks[<<ci, i>>].pc = "raised"
  /\ OnChannelError
  /\ UNCHANGED <<ledgerVars, auxVars, notified, session, disk, cfg, tasks, sem, counterVars, total_stats,
                 interrupted, batch_stats, snap>>

\* how a call of notify_start, notify_error or notify_completion can end:
\* send_message returned True, returned False, or the call raised
NotifyOutcomes == {"sent", "refused", "raised"}
NotifyPositions == {"notify_start", "notify_error", "notify_completion", "notify_critical"}

\* mutant: an exception of a notification call is not caught
NotifyHandled_Propagates(outcome) == outcome # "raised"

\* lines 154-157, 207-210, 227-230: the value returned is dropped, an exception
\* is caught and logged
NotifyHandled(outcome) == TRUE

\* a notification call returns or raises; main goes on where it was
MainNotifyReturn(outcome) ==
  /\ mpc \in NotifyPositions
  /\ notified' = Append(notified, <<mpc, outcome>>)
  /\ IF ~NotifyHandled(outcome)
     THEN mpc' = "disconnect" /\ UNCHANGED <<ci, attempted>>
     ELSE IF mpc \in {"notify_completion", "notify_critical"}
          THEN mpc' = "disconnect" /\ UNCHANGED <<ci, attempted>>
          ELSE NextChannel
  /\ UNCHANGED <<ledgerVars, auxVars, session, disk, cfg, tasks, sem, counterVars, total_stats,
                 interrupted, batch_stats, snap>>

\* asyncio.run ends: the tasks still pending are cancelled
CancelPending ==
  [t \in TaskIds |->
     IF tasks[t].pc \in Suspended \cup {"queued"}
     THEN [tasks[t] EXCEPT !.pc = "cancelled"] ELSE tasks[t]]

\* a transfer that is cancelled leaves nothing, or the part of the file it had
\* written so far
Abandoned(leave) ==
  [p \in DOMAIN disk |->
     IF leave /\ ~FileExists(disk, p)
           /\ \E t \in TaskIds : tasks[t].pc = "transfer" /\ DestPath(t) = p
     THEN LET t == CHOOSE t \in TaskIds : tasks[t].pc = "transfer" /\ DestPath(t) = p
          IN Written("partial", KindOf(t))
     ELSE disk[p]]

\* line 243: client.disconnect returns and main ends
MainExit(leave) ==
  /\ mpc = "disconnect"
  /\ mpc' = "done"
  /\ session' = IF session = "connected" THEN "closed" ELSE session
  /\ tasks' = CancelPending
  /\ disk' = Abandoned(leave)
  /\ UNCHANGED <<ledgerVars, auxVars, notified, cfg, sem, counterVars, ci, total_stats, attempted,
                 interrupted, batch_stats, snap>>

\* mutant: an interrupt ends main where it is
Interrupt_NoFinally(leave) ==
  /\ mpc \notin {"done", "disconnect"}
  /\ interrupted' = TRUE
  /\ mpc' = "done"
  /\ tasks' = CancelPending
  /\ disk' = Abandoned(leave)
  /\ UNCHANGED <<ledgerVars, auxVars, notified, session, cfg, sem, counterVars, ci, total_stats, attempted,
                 batch_stats, snap>>

\* an interrupt ends the try block, lines 232-233: the tasks main was waiting
\* for are cancelled and main goes on to the finally clause, lines 241-243
Interrupt(leave) ==
  /\ mpc \notin {"done", "disconnect"}
  /\ interrupted' = TRUE
  /\ mpc' = "disconnect"
  /\ tasks' = CancelPending
  /\ disk' = Abandoned(leave)
  /\ UNCHANGED <<ledgerVars, auxVars, notified, session, cfg, sem, counterVars, ci, total_stats, attempted,
                 batch_stats, snap>>

\* ---------------------------------------------------------- configurations
KindsMixed == [i \in ItemIds |-> IF i = 1 THEN "exact" ELSE IF i = 2 THEN "nearest"
                                 ELSE IF i = 3 THEN "low" ELSE "high"]
KindsBusy == [i \in ItemIds |-> IF i % 2 = 1 THEN "exact" ELSE "nearest"]
KindsFaulty == [i \in ItemIds |-> IF i = 1 THEN "long" ELSE "exact"]
\* item A matches a target, item B is below every target, item C is above them
KindsEndToEnd == [i \in ItemIds |-> IF i = 1 THEN "exact" ELSE IF i = 2 THEN "low"
                                    ELSE "high"]
\* messages whose media is not a document
KindsBare == [i \in ItemIds |-> "nomedia"]

Scenarios ==
  { [channels |-> <<"A">>, videos |-> 1, kind |-> KindsMixed, retry_attempts |-> 3,
     prior |-> "fresh", notify |-> FALSE, flaky |-> FALSE],
    [channels |-> <<"A">>, videos |-> 1, kind |-> KindsMixed, retry_attempts |-> 3,
     prior |-> "truncated", notify |-> FALSE, flaky |-> FALSE],
    [channels |-> <<"A">>, videos |-> NItems, kind |-> KindsBusy, retry_attempts |-> 1,
     prior |-> "fresh", notify |-> FALSE, flaky |-> FALSE],
    [channels |-> <<"A", "A">>, videos |-> NItems, kind |-> KindsMixed, retry_attempts |-> 1,
     prior |-> "fresh", notify |-> FALSE, flaky |-> FALSE],
    [channels |-> <<"A", "B">>, videos |-> 2, kind |-> KindsFaulty, retry_attempts |-> 1,
     prior |-> "fresh", notify |-> FALSE, flaky |-> FALSE],
    [channels |-> <<"A">>, videos |-> 1, kind |-> KindsBare, retry_attempts |-> 1,
     prior |-> "fresh", notify |-> FALSE, flaky |-> FALSE],
    [channels |-> <<"A">>, videos |-> 3, kind |-> KindsEndToEnd, retry_attempts |-> 1,
     prior |-> "completed", notify |-> FALSE, flaky |-> FALSE],
    [channels |-> <<"A">>, videos |-> 1, kind |-> KindsMixed, retry_attempts |-> 1,
     prior |-> "partial", notify |-> FALSE, flaky |-> FALSE],
    [channels |-> <<"A", "B">>, videos |-> 1, kind |-> KindsMixed, retry_attempts |-> 1,
     prior |-> "fresh", notify |-> TRUE, flaky |-> FALSE],
    [channels |-> <<"A">>, videos |-> 2, kind |-> KindsBusy, retry_attempts |-> 1,
     prior |-> "fresh", notify |-> FALSE, flaky |-> TRUE],
    [channels |-> <<>>, videos |-> 0, kind |-> KindsBare, retry_attempts |-> 1,
     prior |-> "fresh", notify |-> TRUE, flaky |-> FALSE],
    [channels |-> <<"A">>, videos |-> 1, kind |-> KindsMixed, retry_attempts |-> 0,
     prior |-> "fresh", notify |-> FALSE, flaky |-> FALSE] }

\* a ledger and a folder left by an earlier run: item 1 of channel A completed
\* with 2 bytes, its file cut to 1 byte
TruncatedLedger ==
  [c \in {"A"} |->
     [messages |-> [i \in {1} |-> [file_path |-> <<"A", "s", 480>>, file_size |-> 2,
                                   quality |-> 480, status |-> "completed"]],
      total_files |-> 1, total_size |-> 2]]
TruncatedDisk ==
  [p \in SeriesPaths |-> IF p = <<"A", "s", 480>> THEN 1
                         ELSE IF p \in {<<"A", "s", PosterFile>>, <<"A", "s", DescriptionFile>>}
                              THEN 1 ELSE NoFile]

\* a ledger and a folder left by an earlier run: item 3 of channel A completed
\* at 720 with 2 bytes, its file whole
CompletedLedger ==
  [c \in {"A"} |->
     [messages |-> [i \in {3} |-> [file_path |-> <<"A", "s", 720>>, file_size |-> 2,
                                   quality |-> 720, status |-> "completed"]],
      total_files |-> 1, total_size |-> 2]]
CompletedDisk ==
  [p \in SeriesPaths |-> IF p = <<"A", "s", 720>> THEN 2
                         ELSE IF p = <<"A", "s", DescriptionFile>> THEN 1 ELSE NoFile]

\* the folder an interrupted run left: the transfer of item 1 of channel A (480,
\* 2 bytes) was cancelled after 1 byte; the ledger has no entry for it
PartialDisk ==
  [p \in SeriesPaths |->
     IF p \in {<<"A", "s", 480>>, <<"A", "s", PosterFile>>, <<"A", "s", DescriptionFile>>}
     THEN 1 ELSE NoFile]

\* what FileHandler.__init__ loads and what the download folder holds
PriorLedger(prior) ==
  CASE prior = "truncated" -> TruncatedLedger
    [] prior = "completed" -> CompletedLedger
    [] OTHER -> <<>>
PriorDisk(prior) ==
  CASE prior = "truncated" -> TruncatedDisk
    [] prior = "completed" -> CompletedDisk
    [] prior = "partial" -> PartialDisk
    [] OTHER -> [p \in SeriesPaths |-> NoFile]

\* the objects are constructed and main is about to connect (lines 93-144)
Init ==
  /\ AuxInit
  /\ cfg \in Scenarios
  /\ metadata = PriorLedger(cfg.prior)
  /\ persisted = save_metadata(metadata)
  /\ disk = PriorDisk(cfg.prior)
  /\ marked = {} /\ nops = 0 /\ last = NoCall
  /\ tasks = [t \in TaskIds |-> NoTask]
  /\ sem = [b \in Batches |-> 0]
  /\ downloaded_count = 0 /\ skipped_count = 0 /\ failed_count = 0 /\ total_size = 0
  /\ mpc = "connect" /\ ci = 0 /\ attempted = <<>>
  /\ total_stats = ZeroStats /\ interrupted = FALSE
  /\ batch_stats = <<>> /\ snap = metadata /\ notified = <<>> /\ session = "new"

Next ==
  \/ \E ok \in BOOLEAN : MainConnect(ok)
  \/ \E ok \in BOOLEAN : MainResolve(ok)
  \/ \E n \in 0..cfg.videos : MainEnumerate(n)
  \/ MainBatchReturn
  \/ MainBatchRaise
  \/ \E outcome \in NotifyOutcomes : MainNotifyReturn(outcome)
  \/ \E leave \in BOOLEAN : MainExit(leave)
  \/ \E leave \in BOOLEAN : Interrupt(leave)
  \/ \E t \in TaskIds : TaskStart(t)
  \/ \E t \in TaskIds, created \in BOOLEAN : PosterReturn(t, created)
  \/ \E t \in TaskIds, oc \in TransferOutcomes : TransferReturn(t, oc)
  \/ \E t \in TaskIds : SleepReturn(t)

Spec == Init /\ [][Next]_vars

\* ------------------------------------------------- a batch under fair scheduling
\* configurations in which no item raises out of download_video: the ones with
\* a fresh folder and at most one channel, and the ones that notify
LiveScenarios ==
  {c \in Scenarios : /\ c.kind # KindsFaulty
                     /\ c.prior = "fresh" /\ ~c.flaky
                     /\ (Len(c.channels) <= 1 \/ c.notify)}

InitLive == Init /\ cfg \in LiveScenarios

\* no interrupt arrives
NextLive ==
  \/ \E ok \in BOOLEAN : MainConnect(ok)
  \/ \E ok \in BOOLEAN : MainResolve(ok)
  \/ \E n \in 0..cfg.videos : MainEnumerate(n)
  \/ MainBatchReturn
  \/ \E outcome \in NotifyOutcomes : MainNotifyReturn(outcome)
  \/ \E leave \in BOOLEAN : MainExit(leave)
  \/ \E t \in TaskIds : TaskStart(t)
  \/ \E t \in TaskIds, created \in BOOLEAN : PosterReturn(t, created)
  \/ \E t \in TaskIds, oc \in TransferOutcomes : TransferReturn(t, oc)
  \/ \E t \in TaskIds : SleepReturn(t)

\* the event loop runs every task that is ready: a task waiting for the
\* semaphore is resumed when a slot is free, every client.download_media call
\* and every asyncio.sleep returns, and gather returns once all tasks are done
Fairness ==
  /\ WF_vars(\E t \in TaskIds : TaskStart(t))
  /\ WF_vars(\E t \in TaskIds, created \in BOOLEAN : PosterReturn(t, created))
  /\ WF_vars(\E t \in TaskIds, oc \in TransferOutcomes : TransferReturn(t, oc))
  /\ WF_vars(\E t \in TaskIds : SleepReturn(t))
  /\ WF_vars(MainBatchReturn)

SpecLive == InitLive /\ [][NextLive]_vars /\ Fairness

\* ================================================================== claims
RECURSIVE SumOver(_, _)
SumOver(f, S) ==
  IF S = {} THEN 0
  ELSE LET x == CHOOSE y \in S : TRUE IN f[x] + SumOver(f, S \ {x})

EntryOf(ch, id) == metadata[ch].messages[id]
HasEntry(ch, id) == ch \in DOMAIN metadata /\ id \in DOMAIN metadata[ch].messages

\* C3: is_file_downloaded(item, channel) is true iff the ledger holds an entry for
\* the pair whose status is completed, the file at the recorded path exists with
\* size >= the recorded file_size, and the recorded file_size > 0.
C3_DownloadedIffCompletedAndOnDisk ==
  last.op = "check" =>
    (last.result <=>
       /\ HasEntry(last.ch, last.id)
       /\ EntryOf(last.ch, last.id).status = "completed"
       /\ FileExists(disk, EntryOf(last.ch, last.id).file_path)
       /\ disk[EntryOf(last.ch, last.id).file_path] >= EntryOf(last.ch, last.id).file_size
       /\ EntryOf(last.ch, last.id).file_size > 0)

\* C4: a completed entry whose file on disk is shorter than the recorded size is
\* not reported as downloaded; re-completing an existing completed entry changes
\* total_size by (new size - old size) and leaves total_files unchanged, so a
\* sole entry re-completed with its recorded size keeps total_size at that size.
C4_LedgerResume ==
  /\ (/\ last.op = "check"
      /\ HasEntry(last.ch, last.id)
      /\ EntryOf(last.ch, last.id).status = "completed"
      /\ FileExists(disk, EntryOf(last.ch, last.id).file_path)
      /\ disk[EntryOf(last.ch, last.id).file_path] < EntryOf(last.ch, last.id).file_size)
     => ~last.result
  /\ (last.op = "downloaded" /\ last.was = "completed")
     => /\ TotalSize(metadata, last.ch) = last.old_total_size - last.old_size + last.size
        /\ TotalFiles(metadata, last.ch) = last.old_total_files
  /\ (/\ last.op = "downloaded" /\ last.was = "completed"
      /\ last.size = last.old_size /\ last.old_total_size = last.old_size
      /\ last.old_total_files = 1)
     => /\ TotalSize(metadata, last.ch) = last.size
        /\ TotalFiles(metadata, last.ch) = 1

\* C4 witness: a sole completed entry of size 2 whose file holds 1 byte has been
\* completed again with size 2
C4_Witness ==
  /\ last.op = "downloaded" /\ last.was = "completed"
  /\ last.size = 2 /\ last.old_size = 2 /\ last.old_total_size = 2
  /\ last.old_total_files = 1
  /\ disk[LedgerPath(last.ch, last.id)] = 1
  /\ ~is_file_downloaded(metadata, disk, last.id, last.ch)

\* C7: each channel's total_files equals the number of distinct item identifiers
\* ever marked for that channel.
C7_TotalFilesCountsDistinctIds ==
  \A ch \in Channels :
    TotalFiles(metadata, ch) = Cardinality({p \in marked : p[1] = ch})

\* C7 witness: three mark calls on one channel, two distinct ids
C7_Witness ==
  /\ nops = 3
  /\ \E ch \in Channels :
       /\ Cardinality({p \in marked : p[1] = ch}) = 2
       /\ marked \subseteq {ch} \X LedgerIds

\* C8: each channel's total_size equals the sum of file_size over its entries
\* whose status is completed.
C8_TotalSizeIsSumOfCompleted ==
  \A ch \in DOMAIN metadata :
    LET msgs == metadata[ch].messages
        done == {id \in DOMAIN msgs : msgs[id].status = "completed"}
    IN metadata[ch].total_size = SumOver([id \in done |-> msgs[id].file_size], done)

\* ------------------------------------------------------------ orchestrator
Returned(t) == tasks[t].pc = "done"

\* C1: a rate-limit signal never uses up one of the retry_attempts: a task that
\* left the retry loop without a download has had retry_attempts failures that
\* were not rate limits (so [rate-limit, rate-limit, failure, success] with
\* retry_attempts = 3 cannot end FAILED).
C1_RateLimitKeepsBudget ==
  \A t \in TaskIds :
    (Returned(t) /\ tasks[t].result \in {"FAILED", "NONE"})
      => tasks[t].fails = retry_attempts

\* C2: the items of one download_batch call that have entered download_video and
\* not yet returned are never more than max_concurrent.
C2_AtMostMaxConcurrentInFlight ==
  \A b \in Batches : Cardinality(InFlight(b)) <= max_concurrent

\* C2 witness: every slot of a batch is taken and another item is waiting
C2_Witness ==
  \E b \in Batches :
    /\ Cardinality(InFlight(b)) = max_concurrent
    /\ \E i \in ItemIds : tasks[<<b, i>>].pc = "queued"

\* C5: an item with a completed entry whose destination file is shorter than
\* recorded is transferred again: its download_video call does not end SKIPPED.
C5_TruncatedFileIsTransferredAgain ==
  \A t \in TaskIds :
    (tasks[t].resume /\ Returned(t)) => tasks[t].result # "SKIPPED"

\* the second download_batch runs over the items of the first, on the same
\* channel, after the first returned with every item DOWNLOADED or SKIPPED
SecondRun ==
  /\ ci = 2 /\ Len(cfg.channels) = 2 /\ ChanOf(1) = ChanOf(2)
  /\ 1 \in DOMAIN batch_stats
  /\ \A i \in Created(1) : tasks[<<1, i>>].result \in {"DOWNLOADED", "SKIPPED"}
  /\ Created(2) = Created(1)
  /\ Created(2) # {}

SecondRunCounts ==
  /\ \A i \in Created(2) : Returned(<<2, i>>) => tasks[<<2, i>>].result = "SKIPPED"
  /\ metadata = snap
  /\ load_metadata(persisted, torn) = snap
  /\ 2 \in DOMAIN batch_stats =>
       batch_stats[2] = [downloaded |-> 0, skipped |-> Cardinality(Created(2)),
                         failed |-> 0, total_size |-> 0]

C9_EveryChannelAttempted ==
  /\ \A k \in DOMAIN attempted : attempted[k] = k
  /\ (mpc \in {"disconnect", "done"} /\ ~interrupted /\ session # "new")
       => Len(attempted) = Len(cfg.channels)

\* C9 witness: a download of the first channel raised and main ended after
\* attempting the second channel
C9_Witness ==
  /\ mpc = "done" /\ ~interrupted
  /\ attempted = <<1, 2>>
  /\ \E i \in ItemIds : tasks[<<1, i>>].pc = "raised"

\* C10: when main works on a channel, no download_video task of an earlier channel
\* is still pending.
C10_ChannelsStrictlySequential ==
  \A t \in TaskIds :
    t[1] < ci => tasks[t].pc \notin Suspended \cup {"queued"}

\* ------------------------------------------------------------------- crash
\* the entries of ledger a are all in ledger b, unchanged
Contains(b, a) ==
  \A ch \in DOMAIN a : \A id \in DOMAIN a[ch].messages :
    /\ ch \in DOMAIN b /\ id \in DOMAIN b[ch].messages
    /\ b[ch].messages[id] = a[ch].messages[id]

\* C11: whenever the process crashes, also in the middle of a ledger write, the
\* ledger loaded at the next start holds every item transition whose mark_* call
\* had returned before the crash.
C11_LoadedLedgerHoldsReturnedMarks ==
  last.op = "load" => Contains(metadata, acked)

\* ------------------------------------------------------------- retry loop
\* every transfer call the task has made so far failed with an error that is
\* not a rate limit (attempt counts the calls before the current one)
AllFailed(t) == tasks[t].fails = tasks[t].attempt + 1

\* C12: when every transfer call of an item fails with a non-rate-limit error,
\* download_video makes exactly retry_attempts calls, sleeps between two
\* attempts and not after the last, and returns FAILED with failed_count
\* incremented exactly once, the ledger unchanged and no exception raised.
C12_TransferFailureBudget ==
  /\ [](\A t \in TaskIds :
         AllFailed(t) =>
           \/ /\ tasks[t].pc \in {"retrysleep", "cancelled"}
              /\ tasks[t].attempt < retry_attempts - 1
           \/ /\ tasks[t].pc = "done" /\ tasks[t].result = "FAILED"
              /\ tasks[t].attempt + 1 = retry_attempts)
  /\ [][\A t \in TaskIds :
          (tasks'[t].result = "FAILED" /\ tasks[t].result # "FAILED")
            => /\ AllFailed(t)' => tasks'[t].fails = retry_attempts
               /\ failed_count' = failed_count + 1
               /\ metadata' = metadata /\ persisted' = persisted]_vars

\* C12 witness: three attempts were configured, the item's three transfer calls
\* all failed and it returned FAILED, counted once, with the ledger still empty
C12_Witness ==
  \E t \in TaskIds :
    /\ retry_attempts = 3 /\ tasks[t].fails = 3 /\ AllFailed(t)
    /\ Returned(t) /\ tasks[t].result = "FAILED"
    /\ failed_count = 1 /\ metadata = <<>>

\* C13: when a transfer call returns and the destination file is absent or
\* shorter than the size the item declares, the item is not marked completed
\* and not counted DOWNLOADED for that attempt.
C13_ShortFileIsNotDownloaded ==
  [][\A t \in TaskIds :
       (/\ tasks[t].pc = "transfer"
        /\ tasks'[t].pc \notin {"transfer", "cancelled"}
        /\ \/ disk'[DestPath(t)] = NoFile
           \/ disk'[DestPath(t)] < DocSize(KindOf(t)))
         => /\ tasks'[t].result # "DOWNLOADED"
            /\ metadata' = metadata
            /\ downloaded_count' = downloaded_count]_vars

\* --------------------------------------------------------------- counting
\* C14: every item handed to download_batch ends SKIPPED, DOWNLOADED or FAILED
\* and is counted once, so the counters download_batch returns add up to the
\* number of items submitted (also for an item without media and for an item
\* whose attempts all ended in rate-limit signals).
C14_CountersAddUpToSubmitted ==
  /\ \A t \in TaskIds :
       Returned(t) => tasks[t].result \in {"SKIPPED", "DOWNLOADED", "FAILED"}
  /\ \A b \in DOMAIN batch_stats :
       batch_stats[b].downloaded + batch_stats[b].skipped + batch_stats[b].failed
         = Cardinality(Created(b))

\* ------------------------------------------------------ quality selection
Max(S) == CHOOSE x \in S : \A y \in S : y <= x
TargetSet(self) == {self.target_qualities[n] : n \in DOMAIN self.target_qualities}
Sorted(q) == \A m, n \in DOMAIN q : m < n => q[m] <= q[n]
Answer == [fetch |-> ret.fetch, quality |-> ret.quality]

\* C16: with download_nearest = true, for every height h and every target list T
\* (sorted by the constructor): h unknown gives (true, None); h in T gives
\* (true, h); otherwise (true, max{t in T : t <= h}) when such a t exists and
\* (false, None) when h is below every target.
C16_NearestPicksLargestTargetNotAbove ==
  (ret.called /\ arg.self.download_nearest) =>
    LET h == arg.video_quality
        T == TargetSet(arg.self)
        below == {t \in T : t <= h}
    IN /\ Sorted(arg.self.target_qualities)
       /\ Answer = IF h = NoHeight THEN [fetch |-> TRUE, quality |-> NoQuality]
                   ELSE IF h \in T THEN [fetch |-> TRUE, quality |-> h]
                   ELSE IF below # {} THEN [fetch |-> TRUE, quality |-> Max(below)]
                   ELSE [fetch |-> FALSE, quality |-> NoQuality]

TransfersSucceeded(b) ==
  \A i \in Created(b) : tasks[<<b, i>>].fails = 0 /\ tasks[<<b, i>>].attempt = 0

\* C15: in a batch whose transfers succeed, item A (height 480 = a target, no
\* ledger entry, no destination file) is counted downloaded, item B (height 240,
\* below every target) is counted skipped, item C (completed entry, matching file)
\* is counted skipped: download_batch over the three returns downloaded = 1,
\* skipped = 2, failed = 0, in every interleaving.
C15_EndToEndCounts ==
  (cfg.prior = "completed" /\ 1 \in DOMAIN batch_stats /\ TransfersSucceeded(1)) =>
    /\ tasks[<<1, 1>>].result = "DOWNLOADED"
    /\ 2 \in Created(1) => tasks[<<1, 2>>].result = "SKIPPED"
    /\ 3 \in Created(1) => tasks[<<1, 3>>].result = "SKIPPED"
    /\ Created(1) = {1, 2, 3} =>
         /\ batch_stats[1].downloaded = 1
         /\ batch_stats[1].skipped = 2
         /\ batch_stats[1].failed = 0

\* C15 witness: the batch over A, B and C returned and no transfer had failed
C15_Witness ==
  /\ cfg.prior = "completed" /\ 1 \in DOMAIN batch_stats /\ TransfersSucceeded(1)
  /\ Created(1) = {1, 2, 3}
  /\ batch_stats[1].downloaded = 1 /\ batch_stats[1].skipped = 2
  /\ is_file_downloaded(metadata, disk, 3, "A")

\* ---------------------------------------------------------------- restart
\* the run starts from what an interrupted run left behind
RestartedAfterInterrupt == cfg.prior = "partial"

\* C18: after an interrupt during an item's transfer (partial destination file,
\* no completed entry) the next run does not treat the item as downloaded and
\* transfers it again instead of skipping it, and the ledger never holds an
\* entry the orchestrator left in status downloading.
C18_PartialFileIsTransferredAgain ==
  /\ (RestartedAfterInterrupt /\ Returned(<<1, 1>>)) => tasks[<<1, 1>>].result # "SKIPPED"
  /\ \A ch \in DOMAIN metadata : \A id \in DOMAIN metadata[ch].messages :
       metadata[ch].messages[id].status # "downloading"

\* ---------------------------------------------------------- notifications
\* C19: whether a notification call succeeds, returns false or raises, main
\* goes on exactly as after a successful call: the same channels are attempted
\* in the same order, the statistics are the ones the batches returned, and
\* main reaches its disconnect normally.
C19_NotificationNeverChangesOutcome ==
  /\ [][(mpc \in NotifyPositions /\ mpc' # mpc /\ ~interrupted') =>
          /\ total_stats' = total_stats /\ batch_stats' = batch_stats
          /\ metadata' = metadata /\ disk' = disk
          /\ IF mpc \notin {"notify_completion", "notify_critical"} /\ ci < Len(cfg.channels)
             THEN /\ mpc' = "resolve" /\ ci' = ci + 1
                  /\ attempted' = Append(attempted, ci + 1)
             ELSE /\ mpc' = IF mpc \in {"notify_completion", "notify_critical"}
                            THEN "disconnect" ELSE "notify_completion"
                  /\ ci' = ci /\ attempted' = attempted]_vars
  /\ []((mpc \in {"disconnect", "done"} /\ ~interrupted /\ session # "new") =>
          /\ attempted = [k \in 1..Len(cfg.channels) |-> k]
          /\ total_stats.downloaded
               = SumOver([b \in DOMAIN batch_stats |-> batch_stats[b].downloaded],
                         DOMAIN batch_stats)
          /\ total_stats.skipped
               = SumOver([b \in DOMAIN batch_stats |-> batch_stats[b].skipped],
                         DOMAIN batch_stats)
          /\ total_stats.failed
               = SumOver([b \in DOMAIN batch_stats |-> batch_stats[b].failed],
                         DOMAIN batch_stats))

\* C19 witness: the start notification raised, the first channel failed and its
\* error notification was refused, the second channel was downloaded, the
\* completion notification raised, and main ended normally
C19_Witness ==
  /\ mpc = "done" /\ ~interrupted
  /\ notified = << <<"notify_start", "raised">>, <<"notify_error", "refused">>,
                   <<"notify_completion", "raised">> >>
  /\ attempted = <<1, 2>>
  /\ DOMAIN batch_stats = {2}
  /\ total_stats.downloaded = 1

\* ------------------------------------------------------ filename sanitation
\* the first n characters of q
Take(q, n) == IF Len(q) > n THEN SubSeq(q, 1, n) ELSE q

\* C20: for every name, _sanitize_filename returns the name with each of the
\* characters < > : " / \ | ? * replaced by '_', then cut to its first 200
\* characters, then with trailing '.' and ' ' removed; so the result holds no
\* such character, is at most 200 long and does not end with '.' or ' '.
C20_SanitizeReplacesCutsThenTrims ==
  ret.called =>
    LET replaced == [i \in DOMAIN arg.filename |->
                       IF \E n \in DOMAIN invalid_chars : invalid_chars[n] = arg.filename[i]
                       THEN "_" ELSE arg.filename[i]]
    IN /\ ret.value = RStrip(Take(replaced, 200), {".", " "})
       /\ \A i \in DOMAIN ret.value :
            \A n \in DOMAIN invalid_chars : ret.value[i] # invalid_chars[n]
       /\ Len(ret.value) <= 200
       /\ ret.value # <<>> => ret.value[Len(ret.value)] \notin {".", " "}
\* ------------------------------------------------------ ledger write fails
\* C21: when the _save_metadata of mark_file_as_downloaded fails, the entry and
\* the channel totals in memory keep their new values, download_video still
\* returns DOWNLOADED and counts the item, the other tasks and main go on, and
\* the next write that succeeds puts the whole in-memory ledger in the file.
C21_FailedWriteBlocksNothing ==
  /\ []((last.op = "downloaded" /\ ~last.saved) =>
          /\ StatusOf(metadata, last.ch, last.id) = "completed"
          /\ SizeOf(metadata, last.ch, last.id) = last.size
          /\ TotalSize(metadata, last.ch) = last.old_total_size - last.old_size + last.size
          /\ \E b \in DOMAIN cfg.channels :
               ChanOf(b) = last.ch /\ tasks[<<b, last.id>>].result = "DOWNLOADED")
  /\ []((last.op = "downloaded" /\ last.saved /\ last.stale) =>
          load_metadata(persisted, torn) = metadata)
  /\ [][(last' # last /\ ~last'.saved) =>
          /\ mpc' = mpc /\ total_stats' = total_stats
          /\ downloaded_count' = downloaded_count + 1
          /\ failed_count' = failed_count
          /\ total_size' = total_size + last'.size
          /\ \A t \in TaskIds :
               tasks'[t] # tasks[t] =>
                 /\ tasks'[t].pc = "done" /\ tasks'[t].result = "DOWNLOADED"
                 /\ sem'[t[1]] = sem[t[1]] + 1]_vars

\* C21 witness: the write of the first item's completion failed, the second
\* item's write succeeded, and the file holds both entries
C21_Witness ==
  /\ last.op = "downloaded" /\ last.saved /\ last.stale
  /\ Cardinality(marked) = 2
  /\ \A m \in marked : StatusOf(load_metadata(persisted, torn), m[1], m[2]) = "completed"
  /\ load_metadata(persisted, torn) = metadata
\* ----------------------------------------------------------- side artifacts
\* C22: the poster of a series folder is fetched at most once, also when two
\* items of the series are in flight at the same time: no two tasks are inside
\* the poster fetch of the same folder.
C22_PosterFetchedOncePerFolder ==
  \A t1, t2 \in TaskIds :
    (tasks[t1].pc = "poster" /\ tasks[t2].pc = "poster" /\ PosterPath(t1) = PosterPath(t2))
      => t1 = t2

\* ------------------------------------------------------- per-batch counters
\* the items of the batch main is waiting for that returned DOWNLOADED
DownloadedOf(b) == {i \in ItemIds : tasks[<<b, i>>].result = "DOWNLOADED"}

\* C23: at every suspension point of a download_batch call, downloaded_count is
\* the number of that call's items marked completed and total_size is the sum of
\* their recorded sizes.
C23_CountersMatchTheBatch ==
  mpc = "batch" =>
    /\ downloaded_count = Cardinality(DownloadedOf(ci))
    /\ total_size = SumOver([i \in ItemIds |-> SizeOf(metadata, ChanOf(ci), i)],
                            DownloadedOf(ci))
\* ------------------------------------------------ ledger file and memory
\* the entries of a channel record and the sum of their recorded sizes
EntriesOf(md, ch) == DOMAIN md[ch].messages
RecordedSize(md, ch) ==
  SumOver([id \in EntriesOf(md, ch) |-> md[ch].messages[id].file_size], EntriesOf(md, ch))

\* C24: the ledger changes only inside a mark_* call, which updates memory and
\* rewrites the file in one step; while the writes succeed the file holds the
\* in-memory ledger at every suspension point, and every entry a task can see
\* is covered by its channel's totals.
C24_FileFollowsMemory ==
  /\ [](last.saved => /\ ~torn
                      /\ persisted = save_metadata(metadata)
                      /\ load_metadata(persisted, torn) = metadata)
  /\ [](\A ch \in DOMAIN metadata :
          /\ metadata[ch].total_files = Cardinality(EntriesOf(metadata, ch))
          /\ metadata[ch].total_size = RecordedSize(metadata, ch))
  /\ [][(metadata' # metadata \/ persisted' # persisted) =>
          /\ last' # last
          /\ last'.op \in {"downloading", "downloaded"}
          /\ StatusOf(metadata', last'.ch, last'.id)
               = IF last'.op = "downloaded" THEN "completed" ELSE "downloading"
          /\ \A ch \in DOMAIN metadata : \A id \in EntriesOf(metadata, ch) :
               <<ch, id>> # <<last'.ch, last'.id>>
                 => metadata'[ch].messages[id] = metadata[ch].messages[id]]_vars

\* C24 witness: an item has been marked completed while another task is
\* suspended in its transfer, and the file holds the entry and the totals of
\* memory
C24_Witness ==
  /\ last.op = "downloaded" /\ last.saved
  /\ \E t \in TaskIds : tasks[t].pc = "transfer"
  /\ \E ch \in DOMAIN metadata :
       /\ metadata[ch].total_files = 1 /\ metadata[ch].total_size = 2
       /\ load_metadata(persisted, torn)[ch] = metadata[ch]
\* --------------------------------------------------- channel totals, by call
\* C25: mark_file_as_downloaded leaves the entry completed with the actual
\* size, changes the channel's total_size by the actual size minus the size
\* recorded before (0 for a new entry), whatever the entry's status was, and
\* adds 1 to total_files exactly when the entry is new.
C25_DownloadedChangesTotalsByDifference ==
  last.op = "downloaded" =>
    /\ StatusOf(metadata, last.ch, last.id) = "completed"
    /\ SizeOf(metadata, last.ch, last.id) = last.size
    /\ TotalSize(metadata, last.ch) - last.old_total_size
         = last.size - (IF last.was = "absent" THEN 0 ELSE last.old_size)
    /\ TotalFiles(metadata, last.ch) - last.old_total_files
         = IF last.was = "absent" THEN 1 ELSE 0

\* C25 witness: an entry recorded as downloading with 2 bytes expected is
\* completed with 1 byte
C25_Witness ==
  /\ last.op = "downloaded" /\ last.was = "downloading"
  /\ last.old_size = 2 /\ last.size = 1
  /\ TotalFiles(metadata, last.ch) = 2

\* C26: after every mark_* call the channel's total_size is the sum of
\* file_size over all its entries, an entry being downloaded counting with its
\* expected size.
C26_TotalSizeIsSumOfAllEntries ==
  last.op \in {"downloading", "downloaded"} =>
    \A ch \in DOMAIN metadata : metadata[ch].total_size = RecordedSize(metadata, ch)
\* --------------------------------------------------------- global counters
\* C27: when the driver finishes, the global downloaded count is the number of
\* items, over all processed channels, that were downloaded and marked
\* completed.
C27_GlobalCountsEveryDownload ==
  (mpc = "done" /\ ~interrupted) =>
    total_stats.downloaded = Cardinality({t \in TaskIds : tasks[t].result = "DOWNLOADED"})

\* ------------------------------------------------------- failed enumeration
\* C28: a channel whose resolution or enumeration fails is skipped as a whole,
\* also when the enumeration fails after some videos were collected: a
\* download_batch call is made for a channel only with all its videos.
C28_FailedEnumerationSkipsChannel ==
  \A b \in DOMAIN cfg.channels :
    Created(b) # {} => Created(b) = 1..cfg.videos
\* ---------------------------------------------------------------- lifecycle
\* C29: the start notification is sent after a successful connect and before
\* any channel is processed; the completion notification is sent only after the
\* loop over the channels ended and with the final global statistics; on every
\* way out of main (normal end, no channels, top-level exception, interrupt)
\* client.disconnect is the last step.
C29_Lifecycle ==
  /\ [](mpc = "notify_start" =>
          /\ session = "connected"
          /\ ci = 0 /\ attempted = <<>> /\ notified = <<>>
          /\ \A t \in TaskIds : tasks[t] = NoTask)
  /\ [](\A k \in DOMAIN notified :
          /\ notified[k][1] = "notify_start" => k = 1
          /\ notified[k][1] = "notify_completion"
               => /\ k = Len(notified)
                  /\ mpc \in {"disconnect", "done"}
                  /\ ci = Len(cfg.channels))
  /\ [](mpc = "notify_completion" =>
          /\ ci = Len(cfg.channels) /\ Len(attempted) = Len(cfg.channels)
          /\ ~interrupted)
  /\ [][(mpc \in {"notify_completion", "disconnect", "done"}) =>
          total_stats' = total_stats]_vars
  /\ [][(mpc' = "done" /\ mpc # "done") => (mpc = "disconnect" /\ session' # "connected")]_vars
  /\ [][mpc = "disconnect" => mpc' \in {"disconnect", "done"}]_vars
  /\ [][mpc = "done" => mpc' = "done"]_vars

\* C29 witness: main was interrupted while a batch was running and ended with
\* the client disconnected
C29_Witness ==
  /\ mpc = "done" /\ interrupted /\ session = "closed"
  /\ \E t \in TaskIds : tasks[t].pc = "cancelled"
  /\ notified = <<>>

\* ------------------------------------------------------- loading the ledger
\* C30: constructing a FileHandler on a missing or unparseable ledger file gives
\* the empty ledger; on a parseable file it gives the file's content, which is
\* the ledger the last completed write saved.
C30_LoadGivesEmptyOrSavedLedger ==
  last.op = "load" =>
    metadata = IF persisted = NoLedgerFile \/ torn THEN <<>> ELSE acked

\* C30 witness: a ledger with an entry being downloaded and a completed entry
\* was saved and is loaded whole at the next start
C30_Witness ==
  /\ last.op = "load" /\ ~torn /\ persisted # NoLedgerFile
  /\ \E ch \in DOMAIN metadata :
       \E i, j \in EntriesOf(metadata, ch) :
         /\ metadata[ch].messages[i].status = "downloading"
         /\ metadata[ch].messages[j].status = "completed"
\* ------------------------------------------------------ one file, two items
\* C31: no two items of one batch are transferred to the same destination
\* path: at most one of them is inside the byte transfer for that path, and at
\* most one of them is counted DOWNLOADED.
C31_OneTransferPerDestination ==
  \A t1, t2 \in TaskIds :
    (t1[1] = t2[1] /\ t1 # t2 /\ tasks[t1].pc # "none" /\ tasks[t2].pc # "none"
       /\ DestPath(t1) = DestPath(t2))
      => /\ ~(tasks[t1].pc = "transfer" /\ tasks[t2].pc = "transfer")
         /\ ~(tasks[t1].result = "DOWNLOADED" /\ tasks[t2].result = "DOWNLOADED")
\* ------------------------------------------------------ bounded work per item
\* the transfer calls a task has made, the one it is suspended in included;
\* attempt is the loop variable of line 275
TransferCalls(t) ==
  IF tasks[t].pc \in {"transfer", "floodsleep", "retrysleep"} THEN tasks[t].attempt + 1
  ELSE IF tasks[t].result \in {"DOWNLOADED", "FAILED"} THEN tasks[t].attempt + 1
  ELSE tasks[t].attempt

Returns(t, res) == tasks'[t].result = res /\ tasks[t].result # res

\* C34: a download_video call that ends SKIPPED or FAILED leaves the ledger in
\* memory and in the file as they were; one that ends DOWNLOADED changes only
\* the entry of its own (channel, item id) and that channel's totals, and the
\* entry it writes is completed with the size the destination file has when it
\* is verified.
C34_OnlyDownloadedChangesLedger ==
  [][\A t \in TaskIds :
       /\ (Returns(t, "SKIPPED") \/ Returns(t, "FAILED") \/ Returns(t, "NONE"))
            => (metadata' = metadata /\ persisted' = persisted /\ torn' = torn)
       /\ Returns(t, "DOWNLOADED") =>
            LET ch == ChanOf(t[1]) IN
            /\ \A c \in DOMAIN metadata : c # ch => metadata'[c] = metadata[c]
            /\ DOMAIN metadata' = DOMAIN metadata \cup {ch}
            /\ \A id \in EntriesOf(metadata', ch) :
                 id # t[2] => /\ id \in EntriesOf(WithChannel(metadata, ch), ch)
                              /\ metadata'[ch].messages[id] = metadata[ch].messages[id]
            /\ ch \in DOMAIN metadata =>
                 EntriesOf(metadata, ch) \subseteq EntriesOf(metadata', ch)
            /\ metadata'[ch].messages[t[2]]
                 = [file_path |-> DestPath(t), file_size |-> disk'[DestPath(t)],
                    quality |-> QualityOf(t), status |-> "completed"]
            /\ disk'[DestPath(t)] # NoFile]_vars

\* C34 witness: a channel holds the completed entries of two items, the second
\* written while the first was already there, and a third item was skipped
C34_Witness ==
  \E b \in DOMAIN cfg.channels :
    /\ ChanOf(b) \in DOMAIN metadata
    /\ EntriesOf(metadata, ChanOf(b)) = {1, 2}
    /\ tasks[<<b, 1>>].result = "DOWNLOADED" /\ tasks[<<b, 2>>].result = "DOWNLOADED"
    /\ tasks[<<b, 3>>].result = "SKIPPED"
\* ------------------------------------------------------- channels are apart
\* C35: a mark_* call for channel A leaves the record of every other channel
\* as it was, is_file_downloaded for another channel answers as before for
\* every id, no channel record and no entry is ever removed, and total_files
\* never decreases.
C35_ChannelsAreIndependent ==
  [][(last' # last /\ last'.op \in {"downloading", "downloaded"}) =>
       /\ \A ch \in DOMAIN metadata :
            /\ ch \in DOMAIN metadata'
            /\ EntriesOf(metadata, ch) \subseteq EntriesOf(metadata', ch)
            /\ metadata'[ch].total_files >= metadata[ch].total_files
            /\ ch # last'.ch => metadata'[ch] = metadata[ch]
       /\ \A ch \in Channels : \A id \in LedgerIds :
            ch # last'.ch =>
              is_file_downloaded(metadata', disk', id, ch)
                = is_file_downloaded(metadata, disk, id, ch)]_vars

\* C35 witness: both channels hold an entry for item 1, channel B's completed
\* and on disk, and the last call marked item 1 of channel A
C35_Witness ==
  /\ last.op \in {"downloading", "downloaded"} /\ last.ch = "A" /\ last.id = 1
  /\ HasEntry("A", 1) /\ HasEntry("B", 1)
  /\ is_file_downloaded(metadata, disk, 1, "B")
  /\ ~is_file_downloaded(metadata, disk, 1, "A")

\* C36: calling mark_file_as_downloaded twice in a row with the same item,
\* channel, path, size and quality leaves the totals and the entry as they were
\* after the first call.
C36_SecondIdenticalMarkChangesNothing ==
  [][(last.op = "downloaded" /\ last'.op = "downloaded" /\ nops' = nops + 1
        /\ last'.id = last.id /\ last'.ch = last.ch /\ last'.size = last.size)
       => /\ metadata' = metadata
          /\ TotalFiles(metadata', last.ch) = TotalFiles(metadata, last.ch)
          /\ TotalSize(metadata', last.ch) = TotalSize(metadata, last.ch)]_vars

\* C36 witness: the same item was marked downloaded with 2 bytes twice, and
\* nothing else was marked
C36_Witness ==
  /\ nops = 2 /\ Cardinality(marked) = 1
  /\ last.op = "downloaded" /\ last.was = "completed"
  /\ last.size = 2 /\ last.old_size = 2
  /\ TotalFiles(metadata, last.ch) = 1 /\ TotalSize(metadata, last.ch) = 2
\* ------------------------------------------------- ledger of an orchestrator run
\* C37: in a run that starts from an empty ledger, at every suspension point
\* every entry of every channel record is completed, total_files is the number
\* of entries, and total_size is the sum of the entries' file_size and not
\* negative.
C37_OrchestratorLedgerIsConsistent ==
  (cfg # NoConfig /\ PriorLedger(cfg.prior) = <<>>) =>
    \A ch \in DOMAIN metadata :
      /\ \A id \in EntriesOf(metadata, ch) :
           /\ metadata[ch].messages[id].status = "completed"
           /\ metadata[ch].messages[id].file_size >= 0
      /\ metadata[ch].total_files = Cardinality(EntriesOf(metadata, ch))
      /\ metadata[ch].total_size = RecordedSize(metadata, ch)
      /\ metadata[ch].total_size >= 0

\* C37 witness: starting from an empty ledger two items of a channel were
\* marked completed, 3 bytes in all, while main is still inside the batch
C37_Witness ==
  /\ PriorLedger(cfg.prior) = <<>> /\ mpc = "batch"
  /\ \E ch \in DOMAIN metadata :
       /\ metadata[ch].total_files = 2
       /\ metadata[ch].total_size = 3
       /\ \A id \in EntriesOf(metadata, ch) : metadata[ch].messages[id].status = "completed"
====
